---- MODULE Spec2Model ----
(***************************************************************************)
(* Dataflow cache subsystem of the ABS MCP bridge: DataFlowService          *)
(* (in-memory cache, staleness policy, JSON persistence) and the           *)
(* extraction of DataFlow records from the parsed SDMX structure tree.     *)
(*                                                                         *)
(* JavaScript values are encoded as follows.                               *)
(*   - an object is a record; a property that is absent is a key that is   *)
(*     not in the record's DOMAIN; `undefined` is the value Undefined;     *)
(*   - a Date is its time value (an integer number of clock units), the    *)
(*     Invalid Date is InvalidDate;                                        *)
(*   - the content of the Dataflow element, which fast-xml-parser makes    *)
(*     an array, an object or a string, is tagged with its kind;           *)
(*   - the text of the cache file is represented by the JSON document it   *)
(*     spells (a record), or by the kind of defect it has.                 *)
(***************************************************************************)
EXTENDS Integers, Sequences, FiniteSets, TLC

(***************************************************************************)
(* Bounds of the model.                                                    *)
(***************************************************************************)
\* the clock runs from 0 to MaxTime
MaxTime == 4
\* refreshIntervalMs, in clock units
RefreshInterval == 2
\* number of getDataFlows calls that may be in progress
NumCallers == 2

Callers == 1..NumCallers

(***************************************************************************)
(* JavaScript values.                                                      *)
(***************************************************************************)
Undefined == "undefined"
JNull == "null"
\* the time value NaN of an Invalid Date
InvalidDate == 0 - 1
\* an object without properties; also what property reads on a primitive see
NoProps == [k \in {} |-> Undefined]

\* o.k
Get(o, k) == IF k \in DOMAIN o THEN o[k] ELSE Undefined
\* o.k?.j
GetOpt(o, k, j) == IF k \in DOMAIN o THEN Get(o[k], j) ELSE Undefined
\* the text read without its default
OrEmpty_NoDefault(v) == v

\* v || ''   for v a string or undefined
OrEmpty(v) == IF v = Undefined \/ v = "" THEN "" ELSE v

(***************************************************************************)
(* Extraction (DataFlowService.extractDataFlows).                          *)
(***************************************************************************)
EmptyArray == [kind |-> "array", items |-> << >>]

\* truthiness of the content of the Dataflow element
Truthy(v) == IF v.kind = "string" THEN v.str # "" ELSE TRUE

\* parsed.Structure?.Dataflows?.Dataflow || []
DataflowContent(parsed) ==
    IF /\ "Structure" \in DOMAIN parsed
       /\ "Dataflows" \in DOMAIN parsed.Structure
       /\ "Dataflow" \in DOMAIN parsed.Structure.Dataflows
       /\ Truthy(parsed.Structure.Dataflows.Dataflow)
    THEN parsed.Structure.Dataflows.Dataflow
    ELSE EmptyArray

\* a normalization that takes arrays only
Normalize_ArraysOnly(dataflows) ==
    IF dataflows.kind = "array" THEN dataflows.items ELSE << >>

\* Array.isArray(dataflows) ? dataflows : [dataflows]
\* (a single object, or a non-empty string whose property reads all give
\* undefined, becomes a one-element array)
Normalize(dataflows) ==
    IF dataflows.kind = "array" THEN dataflows.items
    ELSE IF dataflows.kind = "object" THEN << dataflows.obj >>
    ELSE << NoProps >>

\* flow.Structure?.Ref is truthy (a Ref element is an object)
HasRef(flow) == "Structure" \in DOMAIN flow /\ "Ref" \in DOMAIN flow.Structure

\* the callback of flows.map
ExtractOne(flow) ==
    LET dataFlow == [id          |-> Get(flow, "id"),
                     agencyID    |-> Get(flow, "agencyID"),
                     version     |-> Get(flow, "version"),
                     name        |-> OrEmpty(GetOpt(flow, "Name", "_text")),
                     description |-> OrEmpty(GetOpt(flow, "Description", "_text"))]
    IN  IF HasRef(flow)
        THEN dataFlow @@
             [structure |-> [id       |-> Get(flow.Structure.Ref, "id"),
                             version  |-> Get(flow.Structure.Ref, "version"),
                             agencyID |-> Get(flow.Structure.Ref, "agencyID")]]
        ELSE dataFlow

extractDataFlows(parsed) ==
    LET flows == Normalize(DataflowContent(parsed))
    IN  [i \in 1..Len(flows) |-> ExtractOne(flows[i])]

(***************************************************************************)
(* Serialization (JSON.stringify in saveCache, JSON.parse and new Date in  *)
(* loadCache).                                                             *)
(***************************************************************************)
\* a serialization that keeps only every second clock unit
toISOString_Coarse(d) == ToString((d \div 2) * 2) \o "Z"

\* Date.prototype.toISOString for a valid Date
toISOString(d) == ToString(d) \o "Z"

\* Date.prototype.toJSON: null for an Invalid Date
toJSON(d) == IF d = InvalidDate THEN JNull ELSE toISOString(d)

\* JSON.stringify of an object with string properties: a property whose
\* value is undefined is left out
StringifyProps(o) == [k \in {j \in DOMAIN o : o[j] # Undefined} |-> o[k]]

\* JSON.stringify of a DataFlow
StringifyFlow(df) ==
    LET own == StringifyProps([k \in DOMAIN df \ {"structure"} |-> df[k]])
    IN  IF "structure" \in DOMAIN df
        THEN own @@ [structure |-> StringifyProps(df.structure)]
        ELSE own

\* JSON.stringify(cache, null, 2)
JSONstringify(cache) ==
    [lastUpdated |-> toJSON(cache.lastUpdated),
     flows       |-> [i \in 1..Len(cache.flows) |-> StringifyFlow(cache.flows[i])]]

\* new Date(v) for v a property of the parsed document
newDate(v) ==
    IF v = Undefined THEN InvalidDate
    ELSE IF v = JNull THEN 0
    ELSE IF \E n \in 0..MaxTime : toISOString(n) = v
         THEN CHOOSE n \in 0..MaxTime : toISOString(n) = v
         ELSE InvalidDate

(***************************************************************************)
(* Upstream documents.                                                     *)
(***************************************************************************)
\* longest Dataflow array of the extraction inputs
MaxFlows == 3

\* Dataflow elements as fast-xml-parser delivers them
ElemFull ==
    [id |-> "A", agencyID |-> "ABS", version |-> "1.0",
     Name |-> [_text |-> "n"], Description |-> [_text |-> "d"],
     Structure |-> [Ref |-> [id |-> "S", version |-> "1.0", agencyID |-> "ABS"]]]
\* no Name, no Description, no Structure
ElemBare == [id |-> "B", agencyID |-> "ABS", version |-> "2.0"]
\* Name without text, empty Description, Structure without Ref
ElemNoText ==
    [id |-> "C", agencyID |-> "ABS", version |-> "3.0",
     Name |-> NoProps, Description |-> [_text |-> ""], Structure |-> NoProps]
\* no id attribute, a Ref that lacks its version
ElemPartial ==
    [agencyID |-> "ABS", version |-> "4.0", Name |-> [_text |-> "n"],
     Structure |-> [Ref |-> [id |-> "S", agencyID |-> "ABS"]]]

Elems == {ElemFull, ElemBare, ElemNoText, ElemPartial}

RECURSIVE SeqsUpTo(_, _)
SeqsUpTo(S, n) ==
    IF n = 0 THEN { << >> }
    ELSE LET shorter == SeqsUpTo(S, n - 1)
         IN  shorter \cup { Append(q, e) : q \in {r \in shorter : Len(r) = n - 1}, e \in S }

Listing(content) == [Structure |-> [Dataflows |-> [Dataflow |-> content]]]

\* every parsed tree of the extraction inputs
AllParsed ==
    {NoProps, [Structure |-> NoProps], [Structure |-> [Dataflows |-> NoProps]]}
    \cup {Listing([kind |-> "string", str |-> s]) : s \in {"", "x"}}
    \cup {Listing([kind |-> "object", obj |-> e]) : e \in Elems}
    \cup {Listing([kind |-> "array", items |-> q]) : q \in SeqsUpTo(Elems, MaxFlows)}

\* the documents the upstream API answers with in the service's runs
Responses ==
    {NoProps,
     Listing([kind |-> "object", obj |-> ElemFull]),
     Listing([kind |-> "array", items |-> <<ElemPartial, ElemBare>>])}

(***************************************************************************)
(* State.                                                                  *)
(***************************************************************************)
VARIABLES
    now,        \* the clock (new Date().getTime())
    cache,      \* DataFlowService.cache
    file,       \* the file at cacheFilePath
    dirExists,  \* whether path.dirname(cacheFilePath) exists
    pc,         \* where each getDataFlows call stands
    force,      \* its forceRefresh argument
    data,       \* what its fs.readFile read
    saving,     \* the cache argument of its saveCache
    result,     \* what it returned or threw
    hist,       \* history of the call (not program state)
    origin,     \* history of the in-memory cache (not program state)
    extractIn,  \* input of the extraction under test
    extractOut, \* its output
    client,     \* the call of an ABSApiClient operation in progress
    track       \* whether calls have failed or overlapped (not program state)

vars == <<now, cache, file, dirExists, pc, force, data, saving, result, hist,
          origin, extractIn, extractOut, client, track>>

Null == [isNull |-> TRUE]
None == [none |-> TRUE]

AbsentFile == [kind |-> "absent"]
UnreadableFile == [kind |-> "unreadable"]
MalformedFile == [kind |-> "malformed"]
\* the file as saveCache writes it for cache c; saved and fetched record
\* the cache object written and the fetch it came from
WrittenFile(c, fetched) ==
    [kind |-> "json", doc |-> JSONstringify(c), saved |-> c, fetched |-> fetched]

Ok(flows) == [kind |-> "ok", flows |-> flows]
Error(e) == [kind |-> "error", error |-> e]

NoHist ==
    [startCache |-> None, startFile |-> None, startDir |-> FALSE, checked |-> None, at |-> 0,
     fetches |-> 0, parsed |-> None, got |-> None, fetchFailed |-> FALSE,
     mkdirs |-> 0, wrote |-> FALSE]

NoOrigin == [fetched |-> None, loadedFrom |-> None]

\* no ABSApiClient operation in progress
IdleClient == [pc |-> "idle"]

NoTrack == [failed |-> FALSE, overlapped |-> FALSE]

\* the call is between its start and its settling
InProgress(state) == state \notin {"idle", "done"}

\* what a step does to track: a call that settles with an error, or two
\* calls in progress at once, are remembered until the service is
\* constructed anew
TrackStep ==
    IF cache # Null /\ cache' = Null /\ \A p \in Callers : pc[p] = "idle"
    THEN track' = NoTrack
    ELSE track' =
           [failed |-> \/ track.failed
                       \/ \E p \in Callers :
                              /\ pc[p] # "done"
                              /\ pc'[p] = "done"
                              /\ result'[p].kind = "error",
            overlapped |-> \/ track.overlapped
                           \/ \E p, q \in Callers :
                                  /\ p # q
                                  /\ InProgress(pc'[p])
                                  /\ InProgress(pc'[q])]

(***************************************************************************)
(* Initial state: a freshly constructed service (cache = null) beside a    *)
(* cache file that is missing, unreadable, not JSON, or was written by an  *)
(* earlier run of the service at time 0.                                   *)
(***************************************************************************)
EarlierCaches == {[lastUpdated |-> 0, flows |-> extractDataFlows(r)] : r \in Responses}

InitFiles ==
    {AbsentFile, UnreadableFile, MalformedFile}
    \cup {WrittenFile(c, [at |-> c.lastUpdated, flows |-> c.flows]) : c \in EarlierCaches}

Init ==
    /\ now = 0
    /\ cache = Null
    /\ file \in InitFiles
    /\ dirExists \in {d \in BOOLEAN : file.kind # "absent" => d}
    /\ pc = [p \in Callers |-> "idle"]
    /\ force = [p \in Callers |-> FALSE]
    /\ data = [p \in Callers |-> None]
    /\ saving = [p \in Callers |-> None]
    /\ result = [p \in Callers |-> None]
    /\ hist = [p \in Callers |-> NoHist]
    /\ origin = NoOrigin
    /\ extractIn = None
    /\ extractOut = None
    /\ client = IdleClient
    /\ track = NoTrack

(***************************************************************************)
(* DataFlowService.                                                        *)
(***************************************************************************)
\* isCacheValid with age <= refreshIntervalMs for age < refreshIntervalMs
isCacheValid_Inclusive(c, t) ==
    IF c = Null THEN FALSE
    ELSE IF c.lastUpdated = InvalidDate THEN FALSE
    ELSE t - c.lastUpdated <= RefreshInterval

\* isCacheValid with the comparison turned round
isCacheValid_Inverted(c, t) ==
    IF c = Null THEN FALSE
    ELSE IF c.lastUpdated = InvalidDate THEN FALSE
    ELSE t - c.lastUpdated >= RefreshInterval

\* isCacheValid without its null check
isCacheValid_NullValid(c, t) ==
    IF c = Null THEN TRUE
    ELSE IF c.lastUpdated = InvalidDate THEN FALSE
    ELSE t - c.lastUpdated < RefreshInterval

\* isCacheValid, on cache c at clock t (a comparison with NaN is false)
isCacheValid(c, t) ==
    IF c = Null THEN FALSE
    ELSE IF c.lastUpdated = InvalidDate THEN FALSE
    ELSE t - c.lastUpdated < RefreshInterval

\* this.cache?.flows ?? []
FlowsOrEmpty(c) == IF c = Null THEN << >> ELSE c.flows

\* loadCache once readFile has read d: the cache it returns
\* (JSON.parse, then lastUpdated made a Date)
ParseCache(d) ==
    [lastUpdated |-> newDate(Get(d.doc, "lastUpdated")), flows |-> d.doc.flows]

\* the error loadCache throws when readFile or JSON.parse fails
LoadError(d) == IF d.kind = "unreadable" THEN "EACCES" ELSE "SyntaxError"

\* getDataFlows from line 33 on, with this.cache = c and forceRefresh = f:
\* either the request of fetchDataFlows is issued, or the cached flows are
\* returned; h is the history of the call so far
Decide(p, c, f, h) ==
    LET seen == [h EXCEPT !.checked = c, !.at = now]
    IN  IF f \/ ~isCacheValid(c, now)
        THEN /\ pc' = [pc EXCEPT ![p] = "request"]
             /\ hist' = [hist EXCEPT ![p] = [seen EXCEPT !.fetches = @ + 1]]
             /\ result' = result
        ELSE /\ pc' = [pc EXCEPT ![p] = "done"]
             /\ hist' = [hist EXCEPT ![p] = seen]
             /\ result' = [result EXCEPT ![p] = Ok(FlowsOrEmpty(c))]

\* a getDataFlows that loads the file on every call
Start_AlwaysLoad(p, f) ==
    /\ pc[p] = "idle"
    /\ force' = [force EXCEPT ![p] = f]
    /\ pc' = [pc EXCEPT ![p] = "readFile"]
    /\ hist' = [hist EXCEPT ![p] =
                  [NoHist EXCEPT !.startCache = cache, !.startFile = file,
                                 !.startDir = dirExists]]
    /\ result' = result
    /\ UNCHANGED <<now, cache, file, dirExists, data, saving, origin,
                   extractIn, extractOut, client>>
    /\ TrackStep

\* getDataFlows(f) is called; it runs to its first await
Start(p, f) ==
    /\ pc[p] = "idle"
    /\ force' = [force EXCEPT ![p] = f]
    /\ LET h == [NoHist EXCEPT !.startCache = cache, !.startFile = file,
                                    !.startDir = dirExists]
       IN  IF cache = Null
           THEN /\ pc' = [pc EXCEPT ![p] = "readFile"]
                /\ hist' = [hist EXCEPT ![p] = h]
                /\ result' = result
           ELSE Decide(p, cache, f, h)
    /\ UNCHANGED <<now, cache, file, dirExists, data, saving, origin,
                   extractIn, extractOut, client>>
    /\ TrackStep

\* a call made while no other call is in progress
Call(p, f) ==
    /\ \A q \in Callers : pc[q] = "idle"
    /\ Start(p, f)

\* fs.readFile of loadCache completes
ReadFile(p) ==
    /\ pc[p] = "readFile"
    /\ data' = [data EXCEPT ![p] = file]
    /\ pc' = [pc EXCEPT ![p] = "loaded"]
    /\ UNCHANGED <<now, cache, file, dirExists, force, saving, result, hist,
                   origin, extractIn, extractOut, client>>
    /\ TrackStep

\* a loadCache that returns null on every failure
LoadResume_Recover(p) ==
    /\ pc[p] = "loaded"
    /\ IF data[p].kind \in {"unreadable", "malformed", "absent"}
       THEN /\ cache' = Null
            /\ origin' = NoOrigin
            /\ Decide(p, Null, force[p], hist[p])
       ELSE /\ cache' = ParseCache(data[p])
            /\ origin' = [fetched |-> data[p].fetched, loadedFrom |-> data[p].saved]
            /\ Decide(p, ParseCache(data[p]), force[p], hist[p])
    /\ UNCHANGED <<now, file, dirExists, force, data, saving, extractIn, extractOut, client>>
    /\ TrackStep

\* loadCache resumes: it throws, or returns null (ENOENT) or the parsed
\* cache, which getDataFlows assigns to this.cache before going on
LoadResume(p) ==
    /\ pc[p] = "loaded"
    /\ IF data[p].kind \in {"unreadable", "malformed"}
       THEN /\ pc' = [pc EXCEPT ![p] = "done"]
            /\ result' = [result EXCEPT ![p] = Error(LoadError(data[p]))]
            /\ UNCHANGED <<cache, hist, origin>>
       ELSE IF data[p].kind = "absent"
       THEN /\ cache' = Null
            /\ origin' = NoOrigin
            /\ Decide(p, Null, force[p], hist[p])
       ELSE /\ cache' = ParseCache(data[p])
            /\ origin' = [fetched |-> data[p].fetched, loadedFrom |-> data[p].saved]
            /\ Decide(p, ParseCache(data[p]), force[p], hist[p])
    /\ UNCHANGED <<now, file, dirExists, force, data, saving, extractIn, extractOut, client>>
    /\ TrackStep

\* a failed request that also drops the in-memory cache
ResponseError_Invalidate(p) ==
    /\ pc[p] = "request"
    /\ pc' = [pc EXCEPT ![p] = "done"]
    /\ result' = [result EXCEPT ![p] = Error("RemoteError")]
    /\ hist' = [hist EXCEPT ![p].fetchFailed = TRUE]
    /\ cache' = Null
    /\ origin' = NoOrigin
    /\ UNCHANGED <<now, file, dirExists, force, data, saving, extractIn, extractOut, client>>
    /\ TrackStep

\* the request of apiClient.getDataFlows fails: handleError throws, and
\* fetchDataFlows and getDataFlows rethrow
ResponseError(p) ==
    /\ pc[p] = "request"
    /\ pc' = [pc EXCEPT ![p] = "done"]
    /\ result' = [result EXCEPT ![p] = Error("RemoteError")]
    /\ hist' = [hist EXCEPT ![p].fetchFailed = TRUE]
    /\ UNCHANGED <<now, cache, file, dirExists, force, data, saving, origin,
                   extractIn, extractOut, client>>
    /\ TrackStep

\* the cache getDataFlows builds from the extracted flows
NewCache(flows, t) == [lastUpdated |-> t, flows |-> flows]

\* a refresh that puts the new flows beside the timestamp of the cache it
\* replaces
Response_KeepTimestamp(p, parsed) ==
    /\ pc[p] = "request"
    /\ LET flows == extractDataFlows(parsed)
           got == [at |-> now, flows |-> flows]
           t == IF cache = Null THEN now ELSE cache.lastUpdated
       IN  /\ cache' = NewCache(flows, t)
           /\ saving' = [saving EXCEPT ![p] = NewCache(flows, t)]
           /\ hist' = [hist EXCEPT ![p].parsed = parsed, ![p].got = got]
           /\ origin' = [fetched |-> got, loadedFrom |-> None]
    /\ pc' = [pc EXCEPT ![p] = "mkdir"]
    /\ UNCHANGED <<now, file, dirExists, force, data, result, extractIn, extractOut, client>>
    /\ TrackStep

\* a refresh that saves the cache it is about to replace
Response_SaveOld(p, parsed) ==
    /\ pc[p] = "request"
    /\ LET flows == extractDataFlows(parsed)
           got == [at |-> now, flows |-> flows]
       IN  /\ cache' = NewCache(flows, now)
           /\ saving' = [saving EXCEPT ![p] =
                            IF cache = Null THEN NewCache(flows, now) ELSE cache]
           /\ hist' = [hist EXCEPT ![p].parsed = parsed, ![p].got = got]
           /\ origin' = [fetched |-> got, loadedFrom |-> None]
    /\ pc' = [pc EXCEPT ![p] = "mkdir"]
    /\ UNCHANGED <<now, file, dirExists, force, data, result, extractIn, extractOut, client>>
    /\ TrackStep

\* the request succeeds with document parsed: the flows are extracted, the
\* cache is replaced, and saveCache runs to its fs.mkdir
Response(p, parsed) ==
    /\ pc[p] = "request"
    /\ LET flows == extractDataFlows(parsed)
           got == [at |-> now, flows |-> flows]
       IN  /\ cache' = NewCache(flows, now)
           /\ saving' = [saving EXCEPT ![p] = NewCache(flows, now)]
           /\ hist' = [hist EXCEPT ![p].parsed = parsed, ![p].got = got]
           /\ origin' = [fetched |-> got, loadedFrom |-> None]
    /\ pc' = [pc EXCEPT ![p] = "mkdir"]
    /\ UNCHANGED <<now, file, dirExists, force, data, result, extractIn, extractOut, client>>
    /\ TrackStep

\* saveCache without its fs.mkdir
Mkdir_Missing(p) ==
    /\ pc[p] = "mkdir"
    /\ pc' = [pc EXCEPT ![p] = "writeFile"]
    /\ UNCHANGED <<now, cache, file, dirExists, force, data, saving, result,
                   hist, origin, extractIn, extractOut, client>>
    /\ TrackStep

\* fs.mkdir(dirname, {recursive: true}) succeeds and saveCache goes on to
\* its fs.writeFile
Mkdir(p) ==
    /\ pc[p] = "mkdir"
    /\ dirExists' = TRUE
    /\ pc' = [pc EXCEPT ![p] = "writeFile"]
    /\ hist' = [hist EXCEPT ![p].mkdirs = @ + 1]
    /\ UNCHANGED <<now, cache, file, force, data, saving, result, origin,
                   extractIn, extractOut, client>>
    /\ TrackStep

\* fs.mkdir fails: saveCache and getDataFlows rethrow
MkdirError(p) ==
    /\ pc[p] = "mkdir"
    /\ pc' = [pc EXCEPT ![p] = "done"]
    /\ result' = [result EXCEPT ![p] = Error("MkdirError")]
    /\ UNCHANGED <<now, cache, file, dirExists, force, data, saving, hist,
                   origin, extractIn, extractOut, client>>
    /\ TrackStep

\* fs.writeFile succeeds and getDataFlows returns the fetched flows
WriteFile(p) ==
    /\ pc[p] = "writeFile"
    /\ dirExists
    /\ file' = WrittenFile(saving[p], hist[p].got)
    /\ pc' = [pc EXCEPT ![p] = "done"]
    /\ result' = [result EXCEPT ![p] = Ok(saving[p].flows)]
    /\ hist' = [hist EXCEPT ![p].wrote = TRUE]
    /\ UNCHANGED <<now, cache, dirExists, force, data, saving, origin,
                   extractIn, extractOut, client>>
    /\ TrackStep

\* fs.writeFile fails, before it opened the file (truncated = FALSE) or
\* after it truncated it: saveCache and getDataFlows rethrow
WriteFileError(p, truncated) ==
    /\ pc[p] = "writeFile"
    /\ truncated => dirExists
    /\ file' = IF truncated THEN MalformedFile ELSE file
    /\ pc' = [pc EXCEPT ![p] = "done"]
    /\ result' = [result EXCEPT ![p] = Error("WriteError")]
    /\ UNCHANGED <<now, cache, dirExists, force, data, saving, hist, origin,
                   extractIn, extractOut, client>>
    /\ TrackStep

\* the caller has its answer; the call's locals are gone
Return(p) ==
    /\ pc[p] = "done"
    /\ pc' = [pc EXCEPT ![p] = "idle"]
    /\ force' = [force EXCEPT ![p] = FALSE]
    /\ data' = [data EXCEPT ![p] = None]
    /\ saving' = [saving EXCEPT ![p] = None]
    /\ result' = [result EXCEPT ![p] = None]
    /\ hist' = [hist EXCEPT ![p] = NoHist]
    /\ UNCHANGED <<now, cache, file, dirExists, origin, extractIn, extractOut, client>>
    /\ TrackStep

\* the process is restarted: a new DataFlowService on the same file
Restart ==
    /\ \A q \in Callers : pc[q] = "idle"
    /\ cache # Null
    /\ cache' = Null
    /\ origin' = NoOrigin
    /\ UNCHANGED <<now, file, dirExists, pc, force, data, saving, result, hist,
                   extractIn, extractOut, client>>
    /\ TrackStep

\* time passes
Tick ==
    /\ now < MaxTime
    /\ now' = now + 1
    /\ UNCHANGED <<cache, file, dirExists, pc, force, data, saving, result,
                   hist, origin, extractIn, extractOut, client>>
    /\ TrackStep

\* the service used serially: a call is made when the previous one is over
Next ==
    \/ \E p \in Callers, f \in BOOLEAN : Call(p, f)
    \/ \E p \in Callers : ReadFile(p)
    \/ \E p \in Callers : LoadResume(p)
    \/ \E p \in Callers : ResponseError(p)
    \/ \E p \in Callers, parsed \in Responses : Response(p, parsed)
    \/ \E p \in Callers : Mkdir(p)
    \/ \E p \in Callers : MkdirError(p)
    \/ \E p \in Callers : WriteFile(p)
    \/ \E p \in Callers, truncated \in BOOLEAN : WriteFileError(p, truncated)
    \/ \E p \in Callers : Return(p)
    \/ Restart
    \/ Tick

Spec == Init /\ [][Next]_vars

(***************************************************************************)
(* Extraction alone, on every parsed tree of AllParsed.                    *)
(***************************************************************************)
InitExtract ==
    /\ now = 0
    /\ cache = Null
    /\ file = AbsentFile
    /\ dirExists = FALSE
    /\ pc = [p \in Callers |-> "idle"]
    /\ force = [p \in Callers |-> FALSE]
    /\ data = [p \in Callers |-> None]
    /\ saving = [p \in Callers |-> None]
    /\ result = [p \in Callers |-> None]
    /\ hist = [p \in Callers |-> NoHist]
    /\ origin = NoOrigin
    /\ extractIn \in AllParsed
    /\ extractOut = None
    /\ client = IdleClient
    /\ track = NoTrack

Extract ==
    /\ extractOut = None
    /\ extractOut' = [flows |-> extractDataFlows(extractIn)]
    /\ UNCHANGED <<now, cache, file, dirExists, pc, force, data, saving, result,
                   hist, origin, extractIn, client>>

NextExtract == Extract /\ UNCHANGED track

SpecExtract == InitExtract /\ [][NextExtract]_vars

(***************************************************************************)
(* Vocabulary of the properties.                                           *)
(***************************************************************************)
FlowKeys == {"id", "agencyID", "version", "name", "description"}
RefKeys == {"id", "version", "agencyID"}

\* two DataFlow records read the same: every field gives the same value,
\* and the structure field is present in both or in neither
SameFlow(a, b) ==
    /\ \A k \in FlowKeys : Get(a, k) = Get(b, k)
    /\ ("structure" \in DOMAIN a) <=> ("structure" \in DOMAIN b)
    /\ ("structure" \in DOMAIN a /\ "structure" \in DOMAIN b) =>
           \A k \in RefKeys : Get(a.structure, k) = Get(b.structure, k)

SameFlows(s, t) ==
    /\ Len(s) = Len(t)
    /\ \A i \in 1..Len(s) : SameFlow(s[i], t[i])

Done(p) == pc[p] = "done"
Succeeded(p) == Done(p) /\ result[p].kind = "ok"
Failed(p) == Done(p) /\ result[p].kind = "error"

\* the call checked an existing cache
CheckedCache(p) == hist[p].checked # None /\ hist[p].checked # Null

\* the age the call's validity check saw
AgeSeen(p) == hist[p].at - hist[p].checked.lastUpdated

\* the cache before the call's refresh
CacheBefore(p) ==
    IF hist[p].checked # None THEN hist[p].checked ELSE hist[p].startCache

(***************************************************************************)
(* C1: a call that finds a cache (in memory or loaded from the file) and   *)
(* has forceRefresh = true, or sees an age at or above the refresh         *)
(* interval, invokes the remote client exactly once; when it succeeds the  *)
(* in-memory cache holds the fetched flows, the file holds that cache, and *)
(* the fetched flows are what it returns.                                  *)
(***************************************************************************)
C1_RefreshWhenForcedOrStale ==
    \A p \in Callers :
        (CheckedCache(p) /\ (force[p] \/ AgeSeen(p) >= RefreshInterval)) =>
            /\ hist[p].fetches = 1
            /\ Succeeded(p) =>
                  /\ cache.flows = extractDataFlows(hist[p].parsed)
                  /\ cache.lastUpdated = hist[p].got.at
                  /\ hist[p].wrote
                  /\ file.kind = "json"
                  /\ file.doc = JSONstringify(cache)
                  /\ result[p].flows = extractDataFlows(hist[p].parsed)

\* a call that was not forced refreshed a cache whose age was exactly the
\* refresh interval, replacing flows that differ from the fetched ones
C1_Witness ==
    \E p \in Callers :
        /\ Succeeded(p)
        /\ ~force[p]
        /\ CheckedCache(p)
        /\ AgeSeen(p) = RefreshInterval
        /\ hist[p].checked.flows # result[p].flows
        /\ hist[p].wrote

(***************************************************************************)
(* C2: a call with forceRefresh = false that finds a cache younger than    *)
(* the refresh interval returns the cached flows, does not invoke the      *)
(* remote client and does not touch the cache file.                        *)
(***************************************************************************)
C2_FreshCacheServed ==
    \A p \in Callers :
        (Done(p) /\ ~force[p] /\ CheckedCache(p) /\ AgeSeen(p) < RefreshInterval) =>
            /\ result[p] = Ok(hist[p].checked.flows)
            /\ cache = hist[p].checked
            /\ hist[p].fetches = 0
            /\ hist[p].mkdirs = 0
            /\ ~hist[p].wrote
            /\ file = hist[p].startFile

\* a non-empty cache one clock unit short of the interval was served
C2_Witness ==
    \E p \in Callers :
        /\ Succeeded(p)
        /\ ~force[p]
        /\ CheckedCache(p)
        /\ AgeSeen(p) = RefreshInterval - 1
        /\ result[p].flows # << >>

(***************************************************************************)
(* C3: a call with forceRefresh = false made when there is neither a cache *)
(* file nor an in-memory cache does not fail on the missing file, issues   *)
(* exactly one remote fetch, and has created the parent directory of the   *)
(* cache file by the time it writes the file.                              *)
(***************************************************************************)
C3_MissingFileFetchesOnce ==
    \A p \in Callers :
        (/\ pc[p] # "idle"
         /\ ~force[p]
         /\ hist[p].startCache = Null
         /\ hist[p].startFile = AbsentFile) =>
            /\ Failed(p) => result[p].error \in {"RemoteError", "MkdirError", "WriteError"}
            /\ Done(p) => hist[p].fetches = 1
            /\ hist[p].fetches <= 1
            /\ pc[p] = "writeFile" => (dirExists /\ hist[p].mkdirs = 1)
            /\ hist[p].wrote => (dirExists /\ hist[p].mkdirs = 1)

\* such a call succeeded where the directory did not exist either
C3_Witness ==
    \E p \in Callers :
        /\ Succeeded(p)
        /\ ~force[p]
        /\ hist[p].startCache = Null
        /\ hist[p].startFile = AbsentFile
        /\ ~hist[p].startDir
        /\ dirExists
        /\ hist[p].wrote
        /\ file.kind = "json"

(***************************************************************************)
(* C4: when the remote fetch of a refresh fails, the call fails with the   *)
(* remote error, the cache file is what it was before the call, and the    *)
(* in-memory cache is the one from before the call or, if there was none,  *)
(* the one the file holds.                                                 *)
(***************************************************************************)
C4_FetchFailureKeepsCache ==
    \A p \in Callers :
        (Done(p) /\ hist[p].fetchFailed) =>
            /\ result[p] = Error("RemoteError")
            /\ file = hist[p].startFile
            /\ ~hist[p].wrote
            /\ IF hist[p].startCache # Null
               THEN cache = hist[p].startCache
               ELSE IF hist[p].startFile.kind = "json"
               THEN /\ cache # Null
                    /\ cache.lastUpdated = hist[p].startFile.saved.lastUpdated
                    /\ SameFlows(cache.flows, hist[p].startFile.saved.flows)
               ELSE cache = Null

\* the fetch failed in a forced refresh of a cache held in memory while the
\* file held a cache too
C4_Witness ==
    \E p \in Callers :
        /\ Done(p)
        /\ hist[p].fetchFailed
        /\ hist[p].startCache # Null
        /\ hist[p].startCache.flows # << >>
        /\ file.kind = "json"

(***************************************************************************)
(* C5: whenever a getDataFlows call fails, with a remote error or a        *)
(* storage error (a failed directory creation or file write included), the *)
(* in-memory cache is the cache from before the refresh.                   *)
(***************************************************************************)
C5_FailureLeavesOldCache ==
    \A p \in Callers : Failed(p) => cache = CacheBefore(p)

(***************************************************************************)
(* C6: in every state of a serially used service the in-memory cache is    *)
(* absent, or its lastUpdated and its flows are those of one fetch: the    *)
(* flows read as the flows that fetch extracted and lastUpdated is the     *)
(* clock reading at which they arrived, whether the cache was set by a     *)
(* refresh or loaded from the file.                                        *)
(***************************************************************************)
C6_TimestampIsFetchTime ==
    cache # Null =>
        /\ origin.fetched # None
        /\ cache.lastUpdated = origin.fetched.at
        /\ SameFlows(cache.flows, origin.fetched.flows)

\* a cache refreshed after time 0 in place of an older one, then loaded
\* from the file by a restarted service at a later time
C6_Witness ==
    /\ cache # Null
    /\ origin.loadedFrom # None
    /\ cache.lastUpdated > 0
    /\ now > cache.lastUpdated
    /\ cache.flows # << >>

(***************************************************************************)
(* C7 (as amended): a call that returns without error and without having   *)
(* invoked the remote client found an existing cache and returns that      *)
(* cache's flows; a call that finds no cache always refreshes.             *)
(***************************************************************************)
C7_NoFetchOnlyWithCache ==
    \A p \in Callers :
        /\ (Succeeded(p) /\ hist[p].fetches = 0) =>
              /\ CheckedCache(p)
              /\ cache # Null
              /\ result[p] = Ok(hist[p].checked.flows)
        /\ (Done(p) /\ hist[p].checked = Null) => hist[p].fetches = 1

\* a call with forceRefresh = false that found neither a cache in memory
\* nor a cache file returned without error, having fetched
C7_Witness ==
    \E p \in Callers :
        /\ Succeeded(p)
        /\ ~force[p]
        /\ hist[p].startCache = Null
        /\ hist[p].startFile = AbsentFile
        /\ hist[p].checked = Null
        /\ hist[p].fetches = 1

\* C7 as claimed: with no cache in memory and none on disk, a call that is
\* not forced returns without error, without a refresh, the empty sequence
C7_Original ==
    \A p \in Callers :
        (/\ Succeeded(p)
         /\ ~force[p]
         /\ hist[p].startCache = Null
         /\ hist[p].startFile = AbsentFile) =>
            /\ hist[p].fetches = 0
            /\ result[p] = Ok(<< >>)

(***************************************************************************)
(* C8: when the cache file is there but cannot be read or parsed, a call   *)
(* that has to load it fails with the load error whatever forceRefresh is, *)
(* without invoking the remote client or writing the file, and leaves the  *)
(* in-memory cache absent; a missing file never makes the call fail with a *)
(* load error.                                                             *)
(***************************************************************************)
C8_LoadFailurePropagates ==
    \A p \in Callers :
        /\ (Done(p) /\ data[p] # None /\ data[p].kind \in {"unreadable", "malformed"}) =>
              /\ result[p] = Error(IF data[p].kind = "unreadable"
                                   THEN "EACCES" ELSE "SyntaxError")
              /\ hist[p].fetches = 0
              /\ hist[p].mkdirs = 0
              /\ ~hist[p].wrote
              /\ file = hist[p].startFile
              /\ cache = Null
        /\ (Failed(p) /\ result[p].error \in {"EACCES", "SyntaxError", "ENOENT"}) =>
              (data[p] # None /\ data[p].kind \in {"unreadable", "malformed"})

\* a forced call failed on a file that is not JSON
C8_Witness ==
    \E p \in Callers :
        /\ Failed(p)
        /\ force[p]
        /\ data[p] # None
        /\ data[p].kind = "malformed"

(***************************************************************************)
(* C9: a cache that saveCache wrote and loadCache read back has flows that *)
(* read as the saved ones (same records in the same order, the structure   *)
(* field where it was) and the saved lastUpdated.                          *)
(***************************************************************************)
C9_SaveLoadRoundTrip ==
    (cache # Null /\ origin.loadedFrom # None) =>
        /\ cache.lastUpdated = origin.loadedFrom.lastUpdated
        /\ SameFlows(cache.flows, origin.loadedFrom.flows)

\* the cache read back was saved at an odd time in this run and holds a
\* record with a structure and without an id, and a record without structure
C9_Witness ==
    /\ cache # Null
    /\ origin.loadedFrom # None
    /\ cache.lastUpdated % 2 = 1
    /\ Len(cache.flows) = 2
    /\ "structure" \in DOMAIN cache.flows[1]
    /\ "id" \notin DOMAIN cache.flows[1]
    /\ origin.loadedFrom.flows[1].id = Undefined
    /\ "structure" \notin DOMAIN cache.flows[2]

(***************************************************************************)
(* C10: extraction gives one record per dataflow element, in upstream      *)
(* order: no record when the tree has no dataflow-listing element, one     *)
(* record when the content of the listing is a single object, and n        *)
(* records, the i-th made from the i-th element, when it is an array of n  *)
(* elements.                                                               *)
(***************************************************************************)
ListingAbsent(parsed) ==
    \/ "Structure" \notin DOMAIN parsed
    \/ "Dataflows" \notin DOMAIN parsed.Structure
    \/ "Dataflow" \notin DOMAIN parsed.Structure.Dataflows

\* record r was made from element e (the elements differ in their version)
MadeFrom(r, e) ==
    /\ r.version = e.version
    /\ r.agencyID = e.agencyID
    /\ r.id = (IF "id" \in DOMAIN e THEN e.id ELSE Undefined)

C10_OneRecordPerElement ==
    extractOut # None =>
        IF ListingAbsent(extractIn)
        THEN extractOut.flows = << >>
        ELSE LET content == extractIn.Structure.Dataflows.Dataflow
             IN  /\ content.kind = "object" =>
                       /\ Len(extractOut.flows) = 1
                       /\ MadeFrom(extractOut.flows[1], content.obj)
                 /\ content.kind = "array" =>
                       /\ Len(extractOut.flows) = Len(content.items)
                       /\ \A i \in 1..Len(content.items) :
                              MadeFrom(extractOut.flows[i], content.items[i])

\* a single object was extracted
C10_Witness ==
    /\ extractOut # None
    /\ extractIn = Listing([kind |-> "object", obj |-> ElemBare])
    /\ Len(extractOut.flows) = 1

\* the dataflow elements of a tree whose listing is an object or an array
ElementsOf(parsed) ==
    IF ListingAbsent(parsed) THEN << >>
    ELSE LET content == parsed.Structure.Dataflows.Dataflow
         IN  IF content.kind = "object" THEN << content.obj >>
             ELSE IF content.kind = "array" THEN content.items
             ELSE << >>

\* the listing of the tree is an object or an array of elements
ListsElements(parsed) ==
    /\ ~ListingAbsent(parsed)
    /\ parsed.Structure.Dataflows.Dataflow.kind \in {"object", "array"}

LacksRef(e) == "Structure" \notin DOMAIN e \/ "Ref" \notin DOMAIN e.Structure

LacksText(e, k) == k \notin DOMAIN e \/ "_text" \notin DOMAIN e[k]

(***************************************************************************)
(* C11: every extracted record has no structure field, which is so         *)
(* whenever its element lacks Structure.Ref, or has a structure whose id,  *)
(* version and agencyID are all defined.                                   *)
(***************************************************************************)
C11_NoUndefinedReference ==
    extractOut # None =>
        /\ \A i \in 1..Len(extractOut.flows) :
               "structure" \in DOMAIN extractOut.flows[i] =>
                   \A k \in RefKeys : Get(extractOut.flows[i].structure, k) # Undefined
        /\ ListsElements(extractIn) =>
               \A i \in 1..Len(ElementsOf(extractIn)) :
                   LacksRef(ElementsOf(extractIn)[i]) =>
                       "structure" \notin DOMAIN extractOut.flows[i]

(***************************************************************************)
(* C12: in every extracted record name and description are present and     *)
(* are neither undefined nor null, and each is the empty string when the   *)
(* element lacks the Name or Description sub-element or its text.          *)
(***************************************************************************)
C12_TextDefaultsToEmpty ==
    extractOut # None =>
        /\ \A i \in 1..Len(extractOut.flows) :
               /\ {"name", "description"} \subseteq DOMAIN extractOut.flows[i]
               /\ extractOut.flows[i].name \notin {Undefined, JNull}
               /\ extractOut.flows[i].description \notin {Undefined, JNull}
        /\ ListsElements(extractIn) =>
               \A i \in 1..Len(ElementsOf(extractIn)) :
                   /\ LacksText(ElementsOf(extractIn)[i], "Name") =>
                          extractOut.flows[i].name = ""
                   /\ LacksText(ElementsOf(extractIn)[i], "Description") =>
                          extractOut.flows[i].description = ""

\* extracted: an element without Description, after one whose Name has no
\* text, after one that has both
C12_Witness ==
    /\ extractOut # None
    /\ extractIn = Listing([kind |-> "array",
                            items |-> <<ElemFull, ElemNoText, ElemBare>>])
    /\ extractOut.flows[1].name = "n"
    /\ extractOut.flows[2].name = ""
    /\ extractOut.flows[3].description = ""

(***************************************************************************)
(* ABSApiClient: one call of getDataFlows, getStructures or getData, from  *)
(* the request it sends to the value or error it settles with.  Absent     *)
(* options are the options object without properties.                      *)
(***************************************************************************)
DataFormats ==
    {"csvfilewithlabels", "csvfile", "jsondata", "genericdata", "structurespecificdata"}

\* the options getData is called with
OptionsGiven ==
    {NoProps, [startPeriod |-> "2020"]}
    \cup {[format |-> f] : f \in DataFormats}
    \cup {[format |-> f, startPeriod |-> "2020"] : f \in DataFormats}

getAcceptHeader(format) ==
    CASE format \in {"csvfile", "csvfilewithlabels"} -> "text/csv"
      [] format = "jsondata" -> "application/vnd.sdmx.data+json"
      [] format = "genericdata" -> "application/xml"
      [] format = "structurespecificdata" -> "application/vnd.sdmx.structurespecificdata+xml"
      [] OTHER -> "application/xml"

\* options?.format || 'jsondata'
FormatSent(options) ==
    IF Get(options, "format") \in {Undefined, ""} THEN "jsondata" ELSE options.format

\* the request of getDataFlows
DataFlowsRequest ==
    [url     |-> "/rest/dataflow",
     params  |-> NoProps,
     headers |-> [Accept |-> "application/vnd.sdmx.structure+xml;version=2.1"]]

\* the request of getStructures; Accept is the default of the axios instance
StructuresRequest(structureType, agencyId, detail, references) ==
    [url     |-> "/rest/" \o structureType \o "/" \o agencyId,
     params  |-> [detail |-> detail, references |-> references],
     headers |-> [Accept |-> "application/xml"]]

\* the request of getData
DataRequest(dataflowId, dataKey, options) ==
    [url     |-> "/rest/data/" \o dataflowId \o "/" \o dataKey,
     params  |-> [format |-> FormatSent(options)] @@ options,
     headers |-> [Accept |-> getAcceptHeader(Get(options, "format"))]]

\* what axios rejects the request to url with: a response outside 2xx, a
\* timeout, a transport error, or an error that is not an AxiosError
Rejections(url) ==
    {[axios |-> TRUE, message |-> "Request failed with status code 404",
      response |-> [status |-> 404, statusText |-> "Not Found"],
      config |-> [url |-> url]],
     [axios |-> TRUE, message |-> "Request failed with status code 500",
      response |-> [status |-> 500, statusText |-> "Internal Server Error"],
      config |-> [url |-> url]],
     [axios |-> TRUE, message |-> "timeout of 30000ms exceeded",
      config |-> [url |-> url]],
     [axios |-> TRUE, message |-> "Network Error", config |-> [url |-> url]],
     [axios |-> FALSE, message |-> "boom"],
     [axios |-> FALSE]}

\* handleError that copies the message only
handleError_MessageOnly(error) ==
    [message |-> IF Get(error, "message") \in {Undefined, ""}
                 THEN "Unknown error" ELSE error.message]

\* handleError: the ABSError it throws (a property it sets to undefined is
\* left out)
handleError(error) ==
    IF error.axios
    THEN [message |-> error.message]
         @@ (IF "response" \in DOMAIN error
             THEN [status |-> error.response.status,
                   statusText |-> error.response.statusText]
             ELSE NoProps)
         @@ (IF "config" \in DOMAIN error
             THEN [url |-> error.config.url]
             ELSE NoProps)
    ELSE [message |-> IF Get(error, "message") \in {Undefined, ""}
                      THEN "Unknown error" ELSE error.message]

\* an operation is called and sends its one request
Send(op, options, request) ==
    /\ client.pc = "idle"
    /\ client' = [pc |-> "request", op |-> op, options |-> options,
                  request |-> request, attempts |-> 1]
    /\ UNCHANGED <<now, cache, file, dirExists, pc, force, data, saving, result,
                   hist, origin, extractIn, extractOut, track>>

CallGetDataFlows == Send("getDataFlows", NoProps, DataFlowsRequest)

CallGetStructures(detail, references) ==
    Send("getStructures", NoProps,
         StructuresRequest("dataflow", "ABS", detail, references))

CallGetData(dataKey, options) ==
    Send("getData", options, DataRequest("CPI", dataKey, options))

\* the request is answered with a 2xx response: getData returns the body
\* of a csv format as it is, everything else is parsed
Responded ==
    /\ client.pc = "request"
    /\ LET raw == /\ client.op = "getData"
                  /\ Get(client.options, "format") \in {"csvfile", "csvfilewithlabels"}
       IN  client' = [client EXCEPT !.pc = "done"]
                     @@ [result |-> [kind |-> "ok",
                                     body |-> IF raw THEN "raw" ELSE "parsed"]]
    /\ UNCHANGED <<now, cache, file, dirExists, pc, force, data, saving, result,
                   hist, origin, extractIn, extractOut, track>>

\* the request is rejected: the response interceptor calls handleError,
\* which throws, and the operation rejects with what it threw
Rejected ==
    /\ client.pc = "request"
    /\ \E error \in Rejections(client.request.url) :
           client' = [client EXCEPT !.pc = "done"]
                     @@ [rejection |-> error,
                         result |-> [kind |-> "error", error |-> handleError(error)]]
    /\ UNCHANGED <<now, cache, file, dirExists, pc, force, data, saving, result,
                   hist, origin, extractIn, extractOut, track>>

\* the caller has its answer
ClientReturn ==
    /\ client.pc = "done"
    /\ client' = IdleClient
    /\ UNCHANGED <<now, cache, file, dirExists, pc, force, data, saving, result,
                   hist, origin, extractIn, extractOut, track>>

NextClient ==
    \/ CallGetDataFlows
    \/ \E detail \in {Undefined, "full"}, references \in {Undefined, "none"} :
           CallGetStructures(detail, references)
    \/ \E dataKey \in {"all"}, options \in OptionsGiven : CallGetData(dataKey, options)
    \/ Responded
    \/ Rejected
    \/ ClientReturn

InitClient ==
    /\ now = 0
    /\ cache = Null
    /\ file = AbsentFile
    /\ dirExists = FALSE
    /\ pc = [p \in Callers |-> "idle"]
    /\ force = [p \in Callers |-> FALSE]
    /\ data = [p \in Callers |-> None]
    /\ saving = [p \in Callers |-> None]
    /\ result = [p \in Callers |-> None]
    /\ hist = [p \in Callers |-> NoHist]
    /\ origin = NoOrigin
    /\ extractIn = None
    /\ extractOut = None
    /\ client = IdleClient
    /\ track = NoTrack

SpecClient == InitClient /\ [][NextClient]_vars

(***************************************************************************)
(* C13: every operation of the client sends one request per call, and when *)
(* that request fails by a response outside 2xx, a timeout or a transport  *)
(* error, the call fails, without another attempt, with an error of one    *)
(* shape: the message of the failure, the status and status text of the    *)
(* response when there is one, and the URL of the request.                 *)
(***************************************************************************)
C13_OneAttemptUniformError ==
    /\ client.pc # "idle" => client.attempts = 1
    /\ (client.pc = "done" /\ "rejection" \in DOMAIN client /\ client.rejection.axios) =>
          /\ client.result.kind = "error"
          /\ DOMAIN client.result.error \subseteq {"message", "status", "statusText", "url"}
          /\ client.result.error.message = client.rejection.message
          /\ IF "response" \in DOMAIN client.rejection
             THEN /\ Get(client.result.error, "status") = client.rejection.response.status
                  /\ Get(client.result.error, "statusText") =
                         client.rejection.response.statusText
             ELSE {"status", "statusText"} \cap DOMAIN client.result.error = {}
          /\ Get(client.result.error, "url") = client.request.url

\* getStructures failed on a 500 response
C13_Witness ==
    /\ client.pc = "done"
    /\ client.op = "getStructures"
    /\ "rejection" \in DOMAIN client
    /\ "response" \in DOMAIN client.rejection
    /\ client.result.kind = "error"
    /\ client.result.error.status = 500

(***************************************************************************)
(* C17: in every getData request, whichever of the five formats the caller *)
(* passes, or none, the Accept header is the media type that the format    *)
(* table gives for the format query parameter of that request.             *)
(***************************************************************************)
MediaTypeOf ==
    [csvfilewithlabels     |-> "text/csv",
     csvfile               |-> "text/csv",
     jsondata              |-> "application/vnd.sdmx.data+json",
     genericdata           |-> "application/xml",
     structurespecificdata |-> "application/vnd.sdmx.structurespecificdata+xml"]

C17_AcceptMatchesFormatSent ==
    (client.pc # "idle" /\ client.op = "getData") =>
        client.request.headers.Accept = MediaTypeOf[client.request.params.format]

(***************************************************************************)
(* The service with calls that interleave at their awaits: a call may      *)
(* start while another is in progress.  One DataFlowService instance, the  *)
(* only writer of its file; each caller makes one call.                    *)
(***************************************************************************)
\* the two calls that interleave
ConcCallers == {p \in Callers : p <= 2}

\* the documents the upstream API answers them with
ConcResponses == {NoProps, Listing([kind |-> "object", obj |-> ElemFull])}

\* a fresh service beside no file, or beside the file an earlier run wrote
InitConc ==
    /\ Init
    /\ \/ file = AbsentFile /\ ~dirExists
       \/ file.kind = "json" /\ Len(file.saved.flows) = 1

NextConc ==
    \/ \E p \in ConcCallers, f \in BOOLEAN : Start(p, f)
    \/ \E p \in ConcCallers : ReadFile(p)
    \/ \E p \in ConcCallers : LoadResume(p)
    \/ \E p \in ConcCallers : ResponseError(p)
    \/ \E p \in ConcCallers, parsed \in ConcResponses : Response(p, parsed)
    \/ \E p \in ConcCallers : Mkdir(p)
    \/ \E p \in ConcCallers : MkdirError(p)
    \/ \E p \in ConcCallers : WriteFile(p)
    \/ \E p \in ConcCallers, truncated \in BOOLEAN : WriteFileError(p, truncated)
    \/ Tick

SpecConc == InitConc /\ [][NextConc]_vars

\* no call is in progress
Quiet == \A p \in Callers : ~InProgress(pc[p])

\* the in-memory cache is the cache the file holds
CacheIsFile ==
    /\ file.kind = "json"
    /\ cache.lastUpdated = file.saved.lastUpdated
    /\ SameFlows(cache.flows, file.saved.flows)

(***************************************************************************)
(* C14 (as amended): while the calls are made one after another, at most   *)
(* one remote fetch is in progress, and a call that is not forced has a    *)
(* fetch in progress only if the in-memory cache is absent or was stale    *)
(* when the call checked it; so a refresh that succeeded is not repeated   *)
(* by a later unforced call within the refresh interval.                   *)
(***************************************************************************)
C14_SerialCallsDoNotRefetch ==
    ~track.overlapped =>
        /\ Cardinality({p \in Callers : pc[p] = "request"}) <= 1
        /\ \A p \in Callers :
               (pc[p] = "request" /\ ~force[p]) =>
                   /\ cache = hist[p].checked
                   /\ cache = Null \/ hist[p].at - cache.lastUpdated >= RefreshInterval

\* with no cache anywhere, an unforced call fetched and saved, and the
\* unforced call made after it was served from the cache without a fetch
C14_Witness ==
    \E p, q \in Callers :
        /\ p # q
        /\ ~track.overlapped
        /\ ~force[p] /\ ~force[q]
        /\ Succeeded(p) /\ Succeeded(q)
        /\ hist[p].startCache = Null
        /\ hist[p].startFile = AbsentFile
        /\ hist[p].fetches = 1
        /\ hist[q].startCache # Null
        /\ hist[q].fetches = 0

\* C14 as claimed: over any interleaving of two calls, never two fetches in
\* progress, and two unforced calls make at most one fetch between them
C14_Original ==
    \A p, q \in Callers :
        p # q =>
            /\ ~(pc[p] = "request" /\ pc[q] = "request")
            /\ (~force[p] /\ ~force[q] /\ ~track.failed) =>
                   hist[p].fetches + hist[q].fetches <= 1

(***************************************************************************)
(* C15 (as amended): while the calls are made one after another and all    *)
(* have succeeded, whenever no call is in progress the in-memory cache, if *)
(* present, is the cache stored in the file.                               *)
(***************************************************************************)
C15_SerialCacheIsFile ==
    (Quiet /\ ~track.failed /\ ~track.overlapped /\ cache # Null) => CacheIsFile

\* two calls made one after the other both refreshed and saved
C15_Witness ==
    \E p, q \in Callers :
        /\ p # q
        /\ Quiet
        /\ ~track.failed
        /\ ~track.overlapped
        /\ Succeeded(p) /\ Succeeded(q)
        /\ hist[p].wrote /\ hist[q].wrote
        /\ hist[q].startCache # Null
        /\ hist[q].startCache # cache

\* C15 as claimed: over any sequence or interleaving of calls that all
\* succeed, the cache is the file whenever no call is in progress
C15_Original ==
    (Quiet /\ ~track.failed /\ cache # Null) => CacheIsFile

(***************************************************************************)
(* C16 (as amended): while the calls are made one after another, the       *)
(* in-memory cache, once present, stays present and its lastUpdated never  *)
(* decreases.                                                              *)
(***************************************************************************)
C16_SerialTimestampMonotone ==
    [][(cache # Null /\ ~track'.overlapped) =>
           (cache' # Null /\ cache'.lastUpdated >= cache.lastUpdated)]_vars

\* a refresh at a later time replaced a cache in calls made one after
\* another
C16_Witness ==
    \E p \in Callers :
        /\ ~track.overlapped
        /\ CheckedCache(p)
        /\ hist[p].got # None
        /\ cache # Null
        /\ cache.lastUpdated > hist[p].checked.lastUpdated

\* C16 as claimed: over any sequence or interleaving of calls, the
\* in-memory cache stays present and its lastUpdated never decreases
C16_Original ==
    [][cache # Null =>
           (cache' # Null /\ cache'.lastUpdated >= cache.lastUpdated)]_vars

====
